---- MODULE Spec2Model ----
(***************************************************************************)
(* A model of lmstudio_webchat.py: the streaming generator                 *)
(* send_message_stream and the Streamlit script that keeps the chat        *)
(* transcript in st.session_state.                                         *)
(*                                                                         *)
(* Text is modelled as a sequence of tokens (a token stands for one or     *)
(* more characters), so that startswith, slicing, strip and concatenation  *)
(* are computed and not assumed.                                           *)
(***************************************************************************)
EXTENDS Integers, Sequences, FiniteSets, TLC

VARIABLES
    persona_choice,     \* the persona selectbox (line 120)
    api_url_input,      \* the sidebar text input "LM Studio API URL" (line 137)
    model_choice,       \* the sidebar selectbox "Model" (line 154)
    custom_model_name,  \* the sidebar text input "Custom model name", as typed (line 163)
    api_url,            \* st.session_state.api_url
    model,              \* st.session_state.model
    messages,           \* st.session_state.messages
    pc,                 \* where the script run of the current turn stands
    prompt,             \* the text st.chat_input returned for the current turn
    T0,                 \* st.session_state.messages when the prompt was submitted
    request,            \* the body of the requests.post call of the current turn
    line,               \* the record response.iter_lines() delivered last
    nrec,               \* how many records iter_lines() has delivered in this turn
    emitted,            \* the fragments send_message_stream has yielded in this turn
    fault,              \* the exception raised inside send_message_stream, if any
    event               \* the widget whose event started the last script run

vars == <<persona_choice, api_url_input, model_choice, custom_model_name, api_url, model,
          messages, pc, prompt, T0, request, line, nrec, emitted, fault, event>>

widgets == <<persona_choice, api_url_input, model_choice, custom_model_name>>
config == <<api_url, model>>
turn == <<prompt, T0, request, line, nrec, emitted, fault>>

----------------------------------------------------------------------------
(* Bounds                                                                  *)

\* Records response.iter_lines() delivers in one turn, at most.
MaxRecords == 2
\* Length of the transcript, at most.
MaxMessages == 4

----------------------------------------------------------------------------
(* Text                                                                    *)

\* str.startswith
StartsWith(s, prefix) ==
    /\ Len(s) >= Len(prefix)
    /\ SubSeq(s, 1, Len(prefix)) = prefix

\* s[n:]
Drop(s, n) == SubSeq(s, n + 1, Len(s))

IsSpace(tok) == tok = " "

RECURSIVE LStrip(_)
LStrip(s) == IF s # <<>> /\ IsSpace(Head(s)) THEN LStrip(Tail(s)) ELSE s

RECURSIVE RStrip(_)
RStrip(s) ==
    IF s # <<>> /\ IsSpace(s[Len(s)]) THEN RStrip(SubSeq(s, 1, Len(s) - 1)) ELSE s

\* str.strip
Strip(s) == RStrip(LStrip(s))

RECURSIVE Concat(_)
\* "".join of a sequence of texts
Concat(ss) == IF ss = <<>> THEN <<>> ELSE Head(ss) \o Concat(Tail(ss))

\* The warning glyph of lines 84, 86 and 227: U+26A0 followed by U+FE0F.
Marker == <<"U+26A0", "U+FE0F">>

----------------------------------------------------------------------------
(* The records of the response stream and their JSON payloads             *)

\* The literal prefix of a data record (line 53); decoded_line[6:] drops it.
DataPrefix == <<"data: ">>

\* The [DONE] signal (line 58).
Sentinel == <<"[DONE]">>

\* A value yielded by the generator, or held at choices[0].delta.content:
\* a Python str, or a value of another type (here an int).
PyStr(text) == [type |-> "str", text |-> text]
PyInt(text) == [type |-> "int", text |-> text]

\* What json.loads returns, along the path the code inspects:
\*   top      the type of the document: "dict", "list" or "null" (None)
\*   choices  data["choices"]: "absent", "null", "list0" ([]) or "list1" ([{...}])
\*   delta    data["choices"][0]["delta"]: "absent", "null" or "dict"
\*   content  delta["content"]: "absent", "null" or "value"
\*   value    the value of delta["content"] when it is there
Json(top, choices, delta, content, value) ==
    [top |-> top, choices |-> choices, delta |-> delta, content |-> content, value |-> value]

NoValue == PyStr(<<>>)

\* The JSON documents the server sends in this model, as text and as parsed.
JsonDocs ==
    { [src |-> "null",
       data |-> Json("null", "absent", "absent", "absent", NoValue)],
      [src |-> "[]",
       data |-> Json("list", "absent", "absent", "absent", NoValue)],
      [src |-> "{}",
       data |-> Json("dict", "absent", "absent", "absent", NoValue)],
      [src |-> "{\"choices\":null}",
       data |-> Json("dict", "null", "absent", "absent", NoValue)],
      [src |-> "{\"choices\":[]}",
       data |-> Json("dict", "list0", "absent", "absent", NoValue)],
      [src |-> "{\"choices\":[{}]}",
       data |-> Json("dict", "list1", "absent", "absent", NoValue)],
      [src |-> "{\"choices\":[{\"delta\":null}]}",
       data |-> Json("dict", "list1", "null", "absent", NoValue)],
      [src |-> "{\"choices\":[{\"delta\":{}}]}",
       data |-> Json("dict", "list1", "dict", "absent", NoValue)],
      [src |-> "{\"choices\":[{\"delta\":{\"content\":null}}]}",
       data |-> Json("dict", "list1", "dict", "null", NoValue)],
      [src |-> "{\"choices\":[{\"delta\":{\"content\":\"\"}}]}",
       data |-> Json("dict", "list1", "dict", "value", PyStr(<<>>))],
      [src |-> "{\"choices\":[{\"delta\":{\"content\":\"Hel\"}}]}",
       data |-> Json("dict", "list1", "dict", "value", PyStr(<<"Hel">>))],
      [src |-> "{\"choices\":[{\"delta\":{\"content\":\"\\u26a0\\ufe0f hot\"}}]}",
       data |-> Json("dict", "list1", "dict", "value", PyStr(Marker \o <<" hot">>))],
      [src |-> "{\"choices\":[{\"delta\":{\"content\":42}}]}",
       data |-> Json("dict", "list1", "dict", "value", PyInt(<<"42">>))] }

\* json.loads(data_str): the parsed document, or JSONDecodeError (ok = FALSE).
JsonLoads(data_str) ==
    IF Len(data_str) = 1 /\ \E d \in JsonDocs : d.src = data_str[1]
    THEN [ok |-> TRUE, data |-> (CHOOSE d \in JsonDocs : d.src = data_str[1]).data]
    ELSE [ok |-> FALSE, data |-> Json("null", "absent", "absent", "absent", NoValue)]

\* A record as response.iter_lines() delivers it: bytes, which are the UTF-8
\* encoding of a text or are not valid UTF-8.
Bytes(text) == [utf8 |-> TRUE, text |-> text]
BadBytes == [utf8 |-> FALSE, text |-> <<"\\xff">>]

\* No record: the value of line before iter_lines() has delivered one.
NoLine == Bytes(<<"(none)">>)

DataLines ==
    { Bytes(DataPrefix \o <<d.src>>) : d \in JsonDocs }
    \cup { Bytes(DataPrefix \o Sentinel),
           Bytes(DataPrefix \o <<" ">> \o Sentinel \o <<" ">>),
           Bytes(DataPrefix \o <<"not-json">>),
           Bytes(DataPrefix) }

OtherLines ==
    { Bytes(<<>>),
      Bytes(<<": ping">>),
      Bytes(<<"data:">> \o Sentinel),
      Bytes(<<"{\"choices\":[{\"delta\":{\"content\":\"Hel\"}}]}">>),
      BadBytes }

\* The records the transport delivers in this model.
Lines == DataLines \cup OtherLines

----------------------------------------------------------------------------
(* send_message_stream                                                     *)

\* The result of one step of the generator's body: the exception it raised
\* ("none" when it raised none), the values it yielded, and whether it left
\* the loop by break.
Step(exc, yield, brk) == [exc |-> exc, yield |-> yield, brk |-> brk]

\* bool(content) of line 71, for content = delta.get("content").
Truthy(data) ==
    /\ data.delta = "dict"
    /\ data.content = "value"
    /\ IF data.value.type = "str" THEN data.value.text # <<>> ELSE data.value.text # <<"0">>

\* Lines 66-72, on the parsed document.
Inspect(data) ==
    IF data.top = "null"
    THEN Step("TypeError", <<>>, FALSE)            \* "choices" in None
    ELSE IF data.top = "list" \/ data.choices = "absent"
    THEN Step("none", <<>>, FALSE)                 \* "choices" in data is False
    ELSE IF data.choices = "null"
    THEN Step("TypeError", <<>>, FALSE)            \* len(None)
    ELSE IF data.choices = "list0"
    THEN Step("none", <<>>, FALSE)                 \* len([]) > 0 is False
    ELSE IF data.delta = "null"
    THEN Step("AttributeError", <<>>, FALSE)       \* None.get("content")
    ELSE IF Truthy(data)
    THEN Step("none", <<data.value>>, FALSE)       \* yield content
    ELSE Step("none", <<>>, FALSE)

\* OnSentinel with continue in place of break.
OnSentinelContinue == Step("none", <<>>, FALSE)

\* Lines 58-59: the payload is the [DONE] signal.
OnSentinel == Step("none", <<>>, TRUE)

\* OnDecodeError without the inner except clause: the error reaches line 85.
OnDecodeErrorRaise == Step("JSONDecodeError", <<>>, FALSE)

\* Lines 74-76: json.loads raised JSONDecodeError.
OnDecodeError == Step("none", <<>>, FALSE)

\* Lines 48-76: the body of the loop, on one record.
ProcessLine(raw) ==
    IF raw.utf8 /\ raw.text = <<>>
    THEN Step("none", <<>>, FALSE)                 \* if line: is False
    ELSE IF ~raw.utf8
    THEN Step("UnicodeDecodeError", <<>>, FALSE)   \* line.decode('utf-8')
    ELSE IF ~StartsWith(raw.text, DataPrefix)
    THEN Step("none", <<>>, FALSE)
    ELSE LET data_str == Strip(Drop(raw.text, Len(DataPrefix)))
             parsed == JsonLoads(data_str)
         IN  IF data_str = Sentinel
             THEN OnSentinel
             ELSE IF ~parsed.ok
             THEN OnDecodeError
             ELSE Inspect(parsed.data)

\* The exceptions of requests that are subclasses of RequestException.
RequestExceptions == {"ConnectionError", "HTTPError", "ChunkedEncodingError"}

\* str(e) of an exception, as one token.
ExcText(e) == <<e>>

\* Handler without the except Exception clause of line 85.
HandlerRequestOnly(e) == IF e \in RequestExceptions THEN "RequestException" ELSE "none"

\* Lines 78 and 85: the except clause of the generator that catches e. Every
\* exception of this model is a subclass of Exception.
Handler(e) == IF e \in RequestExceptions THEN "RequestException" ELSE "Exception"

\* ErrorFragment with the glyph left out of the message of line 84.
ErrorFragmentNoMarker(e) ==
    IF e \in RequestExceptions
    THEN PyStr(<<"API Error: ">> \o ExcText(e) \o <<".">>)
    ELSE PyStr(Marker \o <<" An unknown error occurred: ">> \o ExcText(e))

\* Lines 84 and 86: the value the except clause that catches e yields.
ErrorFragment(e) ==
    IF Handler(e) = "RequestException"
    THEN PyStr(Marker \o <<" API Error: ">> \o ExcText(e) \o <<".">>)
    ELSE PyStr(Marker \o <<" An unknown error occurred: ">> \o ExcText(e))

\* The generator after exception e was raised inside its try block: the
\* fragments yielded so far plus the handler's, and how the generator ended
\* ("raised": the exception left the generator).
AfterRaise(e, sofar) ==
    IF Handler(e) \in {"RequestException", "Exception"}
    THEN [emitted |-> Append(sofar, ErrorFragment(e)), pc |-> "returned"]
    ELSE [emitted |-> sofar, pc |-> "raised"]

----------------------------------------------------------------------------
(* The script: personas, connection settings, transcript                   *)

\* personas (lines 112-118): the system prompt of each persona.
PersonaText(p) ==
    CASE p = "Default Assistant" -> <<"You are a helpful AI assistant.">>
      [] p = "Friendly Tutor" ->
            <<"You are a patient and friendly teacher who explains clearly.">>
      [] p = "Tech Expert" ->
            <<"You are a knowledgeable software engineer who answers concisely.">>
      [] p = "Creative Writer" -> <<"You are an imaginative storyteller who writes vividly.">>
      [] p = "Philosopher" -> <<"You are a thoughtful philosopher who gives deep insights.">>

\* list(personas.keys()); the selectbox starts at its first option.
PersonaNames ==
    <<"Default Assistant", "Friendly Tutor", "Tech Expert", "Creative Writer", "Philosopher">>

\* The personas the user selects in this model.
PersonaPicks == {"Default Assistant", "Tech Expert"}

Message(role, content) == [role |-> role, content |-> content]

\* DEFAULT_API_URL and DEFAULT_MODEL (lines 12-13), without the environment.
HardcodedApiUrl == <<"https", ":", "//", "mandie-erasable-parallel.ngrok-free.dev">>
HardcodedModel == <<"mistral">>

\* The values DEFAULT_API_URL and DEFAULT_MODEL take in this model: the
\* hardcoded ones, and LMSTUDIO_API_URL=example.com and LMSTUDIO_MODEL= (set,
\* and empty) from the environment.
DefaultApiUrls == {HardcodedApiUrl, <<"example.com">>}
DefaultModels == {HardcodedModel, <<>>}

PREDEFINED_MODELS == << <<"mistral">>, <<"llama-3">>, <<"phi-2">> >>

Custom == <<"Custom">>

Range(f) == {f[i] : i \in DOMAIN f}

\* urlparse(url).scheme and .netloc, for a url given as the tokens of its
\* parts: a scheme name, ":", "//", a host.
UrlParse(url) ==
    LET hasScheme == Len(url) >= 2 /\ url[1] \in {"http", "https"} /\ url[2] = ":"
        rest == IF hasScheme THEN Drop(url, 2) ELSE url
        hasNetloc == Len(rest) >= 2 /\ rest[1] = "//"
    IN  [scheme |-> IF hasScheme THEN <<url[1]>> ELSE <<>>,
         netloc |-> IF hasNetloc THEN <<rest[2]>> ELSE <<>>]

\* url_is_valid after lines 130-147.
UrlIsValid(input) ==
    LET stripped_api_url == Strip(input)
        parsed_url == UrlParse(stripped_api_url)
    IN  /\ stripped_api_url # <<>>
        /\ parsed_url.scheme # <<>>
        /\ parsed_url.netloc # <<>>

\* model_options (lines 149-152).
ModelOptions(m) ==
    (IF m \notin Range(PREDEFINED_MODELS) THEN <<m>> ELSE <<>>)
        \o PREDEFINED_MODELS \o <<Custom>>

\* The value the "Custom model name" input is created with (line 165).
CustomDefault(m) == IF m \in Range(PREDEFINED_MODELS) THEN <<>> ELSE m

\* custom_model_is_valid after lines 162-174.
CustomModelIsValid(choice, name) == ~(choice = Custom /\ Strip(name) = <<>>)

\* chosen_model after lines 132 and 162-174.
ChosenModel(choice, name, m) ==
    IF choice = Custom
    THEN IF Strip(name) # <<>> THEN Strip(name) ELSE m
    ELSE choice

\* HasValidationErrors without the custom model check.
HasValidationErrorsUrlOnly(input, choice, name) == ~UrlIsValid(input)

\* has_validation_errors (line 176).
HasValidationErrors(input, choice, name) ==
    ~UrlIsValid(input) \/ ~CustomModelIsValid(choice, name)

\* st.session_state.api_url after lines 178-179.
SidebarApiUrl(input, url) == IF UrlIsValid(input) THEN Strip(input) ELSE url

\* st.session_state.model after lines 181-182.
SidebarModel(choice, name, m) ==
    IF CustomModelIsValid(choice, name) THEN ChosenModel(choice, name, m) ELSE m

\* WithSystemPrompt starting a new transcript when the persona changed.
WithSystemPromptReset(msgs, sp) ==
    IF msgs[1].content # sp THEN <<Message("system", sp)>> ELSE msgs

\* WithSystemPrompt appending the new system prompt as a message.
WithSystemPromptAppend(msgs, sp) ==
    IF msgs[1].content # sp THEN Append(msgs, Message("system", sp)) ELSE msgs

\* WithSystemPrompt without the replacement of line 189.
WithSystemPromptKeep(msgs, sp) == msgs

\* st.session_state.messages after lines 188-189, for the system prompt sp.
WithSystemPrompt(msgs, sp) ==
    IF msgs[1].content # sp THEN [msgs EXCEPT ![1].content = sp] ELSE msgs

\* st.session_state.messages after line 207.
AppendUser(msgs, text) == Append(msgs, Message("user", text))

\* AppendAssistant appending the reply twice.
AppendAssistantTwice(msgs, text) ==
    msgs \o <<Message("assistant", text), Message("assistant", text)>>

\* AppendAssistant putting the reply before the last message.
AppendAssistantBeforeLast(msgs, text) ==
    SubSeq(msgs, 1, Len(msgs) - 1) \o <<Message("assistant", text), msgs[Len(msgs)]>>

\* st.session_state.messages after line 228.
AppendAssistant(msgs, text) == Append(msgs, Message("assistant", text))

\* What the user types into the URL input in this model.
UrlInputs ==
    { <<>>,
      <<"example.com">>,
      <<"https", ":", "//">>,
      <<" ", "https", ":", "//", "example.com", " ">> }

\* The options of the model selectbox the user selects in this model: the
\* stored model, one other predefined model, and "Custom".
ModelPicks(m) == {m, <<"llama-3">>, Custom}

\* What the user types into the custom model name input in this model.
CustomNameInputs == { <<>>, <<"my-model">> }

\* What the user types into the chat input in this model.
Prompts == { <<"hello">> }

\* FreshTranscript built from the first persona, not from the active one.
FreshTranscriptFirstPersona(msgs, sp) == <<Message("system", PersonaText(PersonaNames[1]))>>

\* FreshTranscript that rewrites the system prompt and keeps the messages.
FreshTranscriptKeepingMessages(msgs, sp) == [msgs EXCEPT ![1].content = sp]

\* The transcript of lines 98 and 186: one system message holding sp. msgs is
\* the transcript it replaces.
FreshTranscript(msgs, sp) == <<Message("system", sp)>>

\* RequestBody built before the user message was appended.
RequestBodyWithoutLast(msgs, url, m) ==
    [sent |-> TRUE, messages |-> SubSeq(msgs, 1, Len(msgs) - 1), api_url |-> url, model |-> m]

\* Lines 32-43: the endpoint of requests.post and the model and messages of its
\* JSON body.
RequestBody(msgs, url, m) == [sent |-> TRUE, messages |-> msgs, api_url |-> url, model |-> m]

NoRequest == [sent |-> FALSE, messages |-> <<>>, api_url |-> <<>>, model |-> <<>>]

\* The turn's variables when no turn is under way.
NoTurn ==
    /\ prompt' = <<>>
    /\ T0' = <<>>
    /\ request' = NoRequest
    /\ line' = NoLine
    /\ nrec' = 0
    /\ emitted' = <<>>
    /\ fault' = "none"

\* The state after the first run of the script (lines 120-190).
Init ==
    /\ persona_choice = PersonaNames[1]
    /\ \E url \in DefaultApiUrls, m \in DefaultModels :
          /\ api_url_input = url
          /\ model_choice = m
          /\ custom_model_name = <<>>
          /\ api_url = SidebarApiUrl(url, url)
          /\ model = SidebarModel(m, <<>>, m)
    /\ messages = <<Message("system", PersonaText(PersonaNames[1]))>>
    /\ pc = "idle"
    /\ event = "start"
    /\ prompt = <<>>
    /\ T0 = <<>>
    /\ request = NoRequest
    /\ line = NoLine
    /\ nrec = 0
    /\ emitted = <<>>
    /\ fault = "none"

\* The sidebar part of a script run (lines 124-182), on the widgets as they
\* are after the step.
RunSidebar ==
    /\ api_url' = SidebarApiUrl(api_url_input', api_url)
    /\ model' = SidebarModel(model_choice', custom_model_name', model)

\* The user selects another persona: the script runs, replaces the system
\* prompt in place (lines 188-189) and runs again (line 190).
ChangePersona ==
    /\ pc = "idle"
    /\ \E p \in PersonaPicks :
          /\ p # persona_choice
          /\ persona_choice' = p
          /\ messages' = WithSystemPrompt(messages, PersonaText(p))
    /\ UNCHANGED <<api_url_input, model_choice, custom_model_name, pc>>
    /\ RunSidebar
    /\ UNCHANGED turn
    /\ event' = "persona"

\* The user edits the URL input: the script runs (lines 137-147, 178-179).
\* A valid entry is stored, and the input is rebuilt from the stored value.
EditApiUrl ==
    /\ pc = "idle"
    /\ \E t \in UrlInputs :
          /\ t # api_url_input
          /\ api_url_input' = IF UrlIsValid(t) THEN Strip(t) ELSE t
    /\ UNCHANGED <<persona_choice, model_choice, custom_model_name, pc>>
    /\ RunSidebar
    /\ messages' = WithSystemPrompt(messages, PersonaText(persona_choice))
    /\ UNCHANGED turn
    /\ event' = "api_url"

\* The user selects a model option: the script runs (lines 149-174, 181-182).
SelectModel ==
    /\ pc = "idle"
    /\ \E c \in Range(ModelOptions(model)) \cap ModelPicks(model) :
          /\ c # model_choice
          /\ model_choice' = c
          /\ custom_model_name' = IF c = Custom THEN CustomDefault(model) ELSE <<>>
    /\ UNCHANGED <<persona_choice, api_url_input, pc>>
    /\ RunSidebar
    /\ messages' = WithSystemPrompt(messages, PersonaText(persona_choice))
    /\ UNCHANGED turn
    /\ event' = "model"

\* The user edits the custom model name: the script runs (lines 162-172, 181-182).
EditCustomModel ==
    /\ pc = "idle"
    /\ model_choice = Custom
    /\ \E t \in CustomNameInputs :
          /\ t # custom_model_name
          /\ custom_model_name' = t
    /\ UNCHANGED <<persona_choice, api_url_input, model_choice, pc>>
    /\ RunSidebar
    /\ messages' = WithSystemPrompt(messages, PersonaText(persona_choice))
    /\ UNCHANGED turn
    /\ event' = "custom_model"

\* The user clicks "Reset Chat": reset_chat runs with the system_prompt of the
\* last run (lines 93-98, 231), then the script runs.
ResetChat ==
    /\ pc = "idle"
    /\ messages' = FreshTranscript(messages, PersonaText(persona_choice))
    /\ UNCHANGED <<widgets, pc>>
    /\ RunSidebar
    /\ UNCHANGED turn
    /\ event' = "reset"

\* The user submits a prompt: the script runs up to line 200.
Submit ==
    /\ pc = "idle"
    /\ Len(messages) + 2 <= MaxMessages
    /\ \E p \in Prompts : prompt' = p
    /\ pc' = "validating"
    /\ T0' = messages
    /\ messages' = WithSystemPrompt(messages, PersonaText(persona_choice))
    /\ UNCHANGED widgets
    /\ RunSidebar
    /\ UNCHANGED <<request, line, nrec, emitted, fault>>
    /\ event' = "chat"

\* Lines 202-210: the turn is refused, or the user message is appended.
Validate ==
    /\ pc = "validating"
    /\ IF HasValidationErrors(api_url_input, model_choice, custom_model_name)
       THEN /\ pc' = "rejected"
            /\ UNCHANGED messages
       ELSE /\ pc' = "request"
            /\ messages' = AppendUser(messages, prompt)
    /\ UNCHANGED <<widgets, config, turn, event>>

\* Lines 32-44: requests.post and raise_for_status, which succeed or raise.
Post ==
    /\ pc = "request"
    /\ request' = RequestBody(messages, api_url, model)
    /\ \E outcome \in {"ok", "ConnectionError", "HTTPError"} :
          IF outcome = "ok"
          THEN /\ pc' = "iterating"
               /\ UNCHANGED <<emitted, fault>>
          ELSE /\ pc' = AfterRaise(outcome, emitted).pc
               /\ emitted' = AfterRaise(outcome, emitted).emitted
               /\ fault' = outcome
    /\ UNCHANGED <<widgets, config, messages, prompt, T0, line, nrec, event>>

\* Lines 47-76: iter_lines() delivers a record and the loop body handles it.
Deliver ==
    /\ pc = "iterating"
    /\ nrec < MaxRecords
    /\ \E l \in Lines :
          LET r == ProcessLine(l)
          IN  /\ line' = l
              /\ IF r.exc # "none"
                 THEN /\ pc' = AfterRaise(r.exc, emitted).pc
                      /\ emitted' = AfterRaise(r.exc, emitted).emitted
                      /\ fault' = r.exc
                 ELSE /\ pc' = IF r.brk THEN "returned" ELSE "iterating"
                      /\ emitted' = emitted \o r.yield
                      /\ UNCHANGED fault
    /\ nrec' = nrec + 1
    /\ UNCHANGED <<widgets, config, messages, prompt, T0, request, event>>

\* Line 47: iter_lines() is exhausted, the response has ended.
EndOfStream ==
    /\ pc = "iterating"
    /\ pc' = "returned"
    /\ UNCHANGED <<widgets, config, messages, turn, event>>

\* Line 47: iter_lines() raises, the connection broke while streaming.
TransportError ==
    /\ pc = "iterating"
    /\ pc' = AfterRaise("ChunkedEncodingError", emitted).pc
    /\ emitted' = AfterRaise("ChunkedEncodingError", emitted).emitted
    /\ fault' = "ChunkedEncodingError"
    /\ UNCHANGED <<widgets, config, messages, prompt, T0, request, line, nrec, event>>

\* st.write_stream (lines 217-223): the concatenation of the chunks when all
\* are str; a list of what was written otherwise.
WriteStream(chunks) ==
    IF \A i \in DOMAIN chunks : chunks[i].type = "str"
    THEN PyStr(Concat([i \in DOMAIN chunks |-> chunks[i].text]))
    ELSE [type |-> "list", text |-> <<>>]

\* KeepReply without the check of line 227.
KeepReplyAlways(reply) == TRUE

\* Line 227: whether the reply is kept.
KeepReply(reply) == ~StartsWith(reply.text, Marker)

\* Lines 225-228. reply.startswith raises AttributeError on a list.
Commit ==
    /\ pc = "returned"
    /\ LET reply == WriteStream(emitted)
       IN  IF reply.type # "str"
           THEN /\ pc' = "crashed"
                /\ UNCHANGED messages
           ELSE IF KeepReply(reply)
           THEN /\ pc' = "committed"
                /\ messages' = AppendAssistant(messages, reply.text)
           ELSE /\ pc' = "discarded"
                /\ UNCHANGED messages
    /\ UNCHANGED <<widgets, config, turn, event>>

\* The script run of the turn ends (line 231): the session waits for the user.
Finish ==
    /\ pc \in {"rejected", "committed", "discarded", "crashed", "raised"}
    /\ pc' = "idle"
    /\ NoTurn
    /\ UNCHANGED <<widgets, config, messages, event>>

Next ==
    \/ ChangePersona
    \/ EditApiUrl
    \/ SelectModel
    \/ EditCustomModel
    \/ ResetChat
    \/ Submit
    \/ Validate
    \/ Post
    \/ Deliver
    \/ EndOfStream
    \/ TransportError
    \/ Commit
    \/ Finish

Spec == Init /\ [][Next]_vars

\* The script runs each started turn on to its end, and the transport ends
\* every response: by the sentinel, by its end or by a failure (section 5).
FairSpec ==
    /\ Spec
    /\ WF_vars(Validate)
    /\ WF_vars(Post)
    /\ WF_vars(Deliver \/ EndOfStream \/ TransportError)
    /\ WF_vars(Commit)
    /\ WF_vars(Finish)

----------------------------------------------------------------------------
(* Properties                                                              *)

\* The script run of a turn that passed validation has reached its end.
TurnOver == pc \in {"committed", "discarded", "crashed"}

\* Every fragment of the stream is text.
AllText(chunks) == \A i \in DOMAIN chunks : chunks[i].type = "str"

\* The accumulated stream text.
Accumulated(chunks) == Concat([i \in DOMAIN chunks |-> chunks[i].text])

\* The turn succeeded: its accumulated text does not begin with the marker.
TurnSucceeded == AllText(emitted) /\ ~StartsWith(Accumulated(emitted), Marker)

UserMessage == [role |-> "user", content |-> prompt]

\* C1: a submitted turn with a valid configuration appends exactly one user
\* message holding the submitted text and, when the turn succeeds, exactly one
\* assistant message after it; the messages that were in the transcript keep
\* their position, role and content.
C1_TurnAppendsUserThenAssistant ==
    /\ pc \in {"request", "iterating", "returned"} => messages = T0 \o <<UserMessage>>
    /\ TurnOver =>
          LET n == Len(T0)
          IN  /\ Len(messages) \in {n + 1, n + 2}
              /\ SubSeq(messages, 1, n) = T0
              /\ messages[n + 1] = UserMessage
              /\ Len(messages) = n + 2 => messages[n + 2].role = "assistant"
              /\ TurnSucceeded => Len(messages) = n + 2

\* A second turn, on a transcript that already holds a user message, committed
\* a reply of two fragments.
C1_Witness == pc = "committed" /\ Len(T0) = 2 /\ Len(emitted) = 2

\* C2: when the accumulated stream text of a turn begins with the error
\* marker, the transcript after the turn is the transcript before it plus the
\* user message: its length is len(T)+1.
C2_MarkerTurnKeepsUserOnly ==
    (TurnOver /\ AllText(emitted) /\ StartsWith(Accumulated(emitted), Marker))
        => /\ Len(messages) = Len(T0) + 1
           /\ messages[Len(messages)].role = "user"

\* A turn was discarded whose text began with the marker.
C2_Witness ==
    /\ pc = "discarded"
    /\ StartsWith(Accumulated(emitted), Marker)
    /\ Len(messages) = 3

\* C3: when the stream of a turn ends with a transport error (a
\* RequestException), also after fragments were emitted, no assistant
\* message is appended for the turn.
C3_TransportErrorDiscardsTurn ==
    (TurnOver /\ fault \in RequestExceptions) => messages = T0 \o <<UserMessage>>

\* The connection configuration is invalid: the endpoint is empty or lacks a
\* scheme or a host, or Custom is selected with an empty name.
ConfigInvalid ==
    LET endpoint == Strip(api_url_input)
    IN  \/ endpoint = <<>>
        \/ UrlParse(endpoint).scheme = <<>>
        \/ UrlParse(endpoint).netloc = <<>>
        \/ (model_choice = Custom /\ Strip(custom_model_name) = <<>>)

\* C4: a turn submitted while the connection configuration is invalid is
\* rejected: no HTTP request is issued and the transcript stays as it was.
C4_InvalidConfigRejectsTurn ==
    (pc # "idle" /\ ConfigInvalid)
        => /\ pc \in {"validating", "rejected"}
           /\ messages = T0
           /\ ~request.sent

\* A turn was rejected for an empty custom model name, the endpoint being valid.
C4_Witness ==
    /\ pc = "rejected"
    /\ model_choice = Custom
    /\ Strip(custom_model_name) = <<>>
    /\ UrlParse(Strip(api_url_input)).netloc # <<>>
    /\ Len(T0) = 2

\* The record is a data record: it decodes and begins with the prefix.
IsDataRecord(l) == l.utf8 /\ StartsWith(l.text, DataPrefix)

\* The stripped payload of a data record.
Payload(l) == Strip(Drop(l.text, Len(DataPrefix)))

IsSentinelRecord(l) == IsDataRecord(l) /\ Payload(l) = Sentinel

\* The step delivers a record to the generator.
Delivery == pc = "iterating" /\ nrec' = nrec + 1

\* C5: once a data record whose stripped payload is [DONE] has been read, the
\* fragment sequence ends without an error, and no fragment is emitted for
\* that record or after it.
C5_SentinelEndsStream ==
    [][ /\ (Delivery /\ IsSentinelRecord(line'))
            => (emitted' = emitted /\ pc' = "returned" /\ fault' = "none")
        /\ pc = "returned" => (emitted' = emitted /\ nrec' = nrec) ]_vars

\* A padded sentinel ended a stream that had yielded a fragment.
C5_Witness ==
    /\ pc = "returned"
    /\ line = Bytes(DataPrefix \o <<" ">> \o Sentinel \o <<" ">>)
    /\ Len(emitted) = 1

\* The parsed payload carries non-empty content at choices[0].delta.content.
HasContent(data) ==
    /\ data.top = "dict"
    /\ data.choices = "list1"
    /\ data.delta = "dict"
    /\ data.content = "value"
    /\ data.value.text # <<>>

\* The payload of the data record parses as JSON.
Parses(l) == IsDataRecord(l) /\ ~IsSentinelRecord(l) /\ JsonLoads(Payload(l)).ok

\* The fragments a record contributes according to C6.
Expected(l) ==
    IF Parses(l) /\ HasContent(JsonLoads(Payload(l)).data)
    THEN <<JsonLoads(Payload(l)).data.value>>
    ELSE <<>>

\* C6: on records delivered without failure (no exception is raised while
\* the record is read and handled) the generator emits only non-empty
\* strings, exactly one per data record whose payload parses and carries
\* non-empty content, in arrival order, and none for another record.
C6_OneFragmentPerContentRecord ==
    [][ (Delivery /\ fault' = "none") =>
          /\ emitted' = emitted \o Expected(line')
          /\ \A i \in DOMAIN emitted' :
                emitted'[i].type = "str" /\ emitted'[i].text # <<>> ]_vars

\* The payload of the data record is not JSON.
Malformed(l) == IsDataRecord(l) /\ ~IsSentinelRecord(l) /\ ~JsonLoads(Payload(l)).ok

\* C7: a data record whose payload is not JSON yields no fragment and does
\* not end the sequence; a valid data record after it yields its fragment.
C7_MalformedRecordSkipped ==
    [][ /\ (Delivery /\ Malformed(line'))
            => (emitted' = emitted /\ pc' = "iterating" /\ fault' = "none")
        /\ (Delivery /\ nrec > 0 /\ Malformed(line) /\ Expected(line') # <<>>)
            => emitted' = emitted \o Expected(line') ]_vars

\* A record that is not JSON was read first, and the stream goes on.
C7_Witness ==
    /\ pc = "iterating"
    /\ nrec = 1
    /\ line = Bytes(DataPrefix \o <<"not-json">>)
    /\ nrec < MaxRecords

\* C8: a data record whose payload parses but holds no content at
\* choices[0].delta.content yields no fragment, and the iteration goes on.
C8_ContentlessRecordSkipped ==
    [][ (Delivery /\ Parses(line') /\ ~HasContent(JsonLoads(Payload(line')).data))
            => (emitted' = emitted /\ pc' = "iterating") ]_vars

IsErrorText(f) == f.type = "str" /\ StartsWith(f.text, Marker)

\* C9: when the request fails before a record is read, the generator yields
\* exactly one fragment, which begins with the marker, and ends.
C9_RequestFailureYieldsOneError ==
    fault \in {"ConnectionError", "HTTPError"}
        => /\ pc \in {"returned", "discarded"}
           /\ nrec = 0
           /\ Len(emitted) = 1
           /\ IsErrorText(emitted[1])

\* The request was refused and the generator has ended.
C9_Witness == pc = "returned" /\ fault = "ConnectionError" /\ request.sent

\* The values the server sends at choices[0].delta.content.
ServerContents == {d.data.value : d \in {x \in JsonDocs : x.data.content = "value"}}

\* C10: no failure inside the generator leaves it as an exception: a failing
\* run ends normally, its last fragment is the one marker-prefixed error
\* fragment a handler yielded.
C10_FailureEndsWithOneErrorFragment ==
    /\ pc # "raised"
    /\ fault # "none" =>
          LET n == Len(emitted)
          IN  /\ pc \in {"returned", "committed", "discarded", "crashed"}
              /\ n >= 1
              /\ n <= nrec + 1
              /\ IsErrorText(emitted[n])
              /\ emitted[n] \notin ServerContents
              /\ \A i \in 1..(n - 1) : emitted[i] \in ServerContents

\* Inspecting a payload failed after a fragment had been yielded.
C10_Witness == pc = "returned" /\ fault = "AttributeError" /\ Len(emitted) = 2

\* C11: the transcript is never empty and its first message has role system;
\* whenever the session is idle or a request is issued, the content of the
\* first message is the text of the active persona; no later message has
\* role system.
C11_SystemMessageFirst ==
    /\ Len(messages) >= 1
    /\ messages[1].role = "system"
    /\ \A i \in 2..Len(messages) : messages[i].role # "system"
    /\ pc = "idle" => messages[1].content = PersonaText(persona_choice)
    /\ request.sent =>
          /\ request.messages[1] = Message("system", PersonaText(persona_choice))
          /\ \A i \in 2..Len(request.messages) : request.messages[i].role # "system"

\* A request was issued after the persona was changed on a transcript that
\* held a user message.
C11_Witness ==
    /\ request.sent
    /\ persona_choice = "Tech Expert"
    /\ Len(request.messages) = 3

\* C12 as stated: after any sequence of turns, resets and persona changes
\* the messages after the first strictly alternate user, assistant, ...: no
\* two consecutive messages have the same role.
C12_StrictAlternation ==
    pc = "idle" =>
        /\ \A i \in 2..Len(messages) :
              messages[i].role = IF i % 2 = 0 THEN "user" ELSE "assistant"
        /\ \A i \in 2..(Len(messages) - 1) : messages[i].role # messages[i + 1].role

\* C12 as amended: the messages after the first are user and assistant
\* messages, the first of them a user message, and every assistant message
\* directly follows a user message; a turn that failed leaves its user
\* message without a reply, so two user messages can be consecutive.
C12_AssistantFollowsUser ==
    /\ \A i \in 2..Len(messages) : messages[i].role \in {"user", "assistant"}
    /\ Len(messages) >= 2 => messages[2].role = "user"
    /\ \A i \in 3..Len(messages) :
          messages[i].role = "assistant" => messages[i - 1].role = "user"

\* After a failed turn and a successful one the transcript holds two user
\* messages and then an assistant message.
C12_Witness ==
    /\ pc = "idle"
    /\ Len(messages) = 4
    /\ messages[2].role = "user"
    /\ messages[3].role = "user"
    /\ messages[4].role = "assistant"

\* C13: the transcript is mutated only by appends: across every step that
\* is not a reset, the messages after the first stay where they were,
\* unchanged, and the first message changes in its content only.
C13_AppendOnly ==
    [][ event' # "reset" =>
          /\ Len(messages') >= Len(messages)
          /\ \A i \in 2..Len(messages) : messages'[i] = messages[i]
          /\ messages'[1].role = messages[1].role ]_vars

\* The persona was changed on a transcript that holds a reply.
C13_Witness ==
    /\ event = "persona"
    /\ Len(messages) = 3
    /\ messages[3].role = "assistant"

\* C14: changing the persona replaces the content of the first message by
\* the text of the new persona; the length of the transcript and every other
\* message stay as they were.
C14_PersonaChangeRewritesFirstOnly ==
    [][ persona_choice' # persona_choice =>
          messages' = [messages EXCEPT ![1].content = PersonaText(persona_choice')] ]_vars

\* The persona was changed on a transcript of four messages.
C14_Witness ==
    /\ event = "persona"
    /\ persona_choice = "Tech Expert"
    /\ Len(messages) = 4

\* C15 as stated: after a persona change the transcript is a fresh one of
\* length 1, the earlier user and assistant messages are gone.
C15_PersonaChangeResets ==
    [][ persona_choice' # persona_choice => Len(messages') = 1 ]_vars

\* C15 as amended: a reset leaves a transcript of length 1; a persona change
\* keeps the length of the transcript and its user and assistant messages.
C15_ResetClearsPersonaChangeKeeps ==
    [][ /\ event' = "reset" => Len(messages') = 1
        /\ persona_choice' # persona_choice =>
              /\ Len(messages') = Len(messages)
              /\ SubSeq(messages', 2, Len(messages')) = SubSeq(messages, 2, Len(messages)) ]_vars

\* The persona was changed back on a transcript that holds two user messages.
C15_Witness ==
    /\ event = "persona"
    /\ persona_choice = "Default Assistant"
    /\ Len(messages) = 3
    /\ messages[3].role = "user"

\* C16: a reset leaves a transcript of exactly one message, with role system
\* and the text of the persona that is active when the reset happens.
C16_ResetLeavesActivePersona ==
    event = "reset" => messages = <<[role |-> "system", content |-> PersonaText(persona_choice)]>>

\* The chat was reset while a persona other than the first was active.
C16_Witness ==
    /\ event = "reset"
    /\ persona_choice = "Tech Expert"
    /\ Len(messages) = 1

\* The state of the turn state machine of section 4.2 that a position of
\* the script stands for; "Faulted" is a script run ended by an exception.
TurnState(p) ==
    CASE p = "idle" -> "Idle"
      [] p = "validating" -> "AwaitingValidation"
      [] p = "rejected" -> "Rejected"
      [] p \in {"request", "iterating", "returned"} -> "StreamingResponse"
      [] p = "committed" -> "Committed"
      [] p = "discarded" -> "DiscardedOnError"
      [] OTHER -> "Faulted"

TurnTransitions ==
    { <<"Idle", "Idle">>,
      <<"Idle", "AwaitingValidation">>,
      <<"AwaitingValidation", "Rejected">>,
      <<"AwaitingValidation", "StreamingResponse">>,
      <<"StreamingResponse", "StreamingResponse">>,
      <<"StreamingResponse", "Committed">>,
      <<"StreamingResponse", "DiscardedOnError">>,
      <<"Rejected", "Idle">>,
      <<"Committed", "Idle">>,
      <<"DiscardedOnError", "Idle">> }

\* C17: every step of a turn is a transition of Idle -> AwaitingValidation
\* -> (Rejected | StreamingResponse) -> (Committed | DiscardedOnError) ->
\* Idle, and while a turn is outside Idle no other turn starts and no reset,
\* persona change or configuration edit is applied.
C17_TurnStateMachine ==
    [][ /\ <<TurnState(pc), TurnState(pc')>> \in TurnTransitions
        /\ pc # "idle" =>
              /\ UNCHANGED <<widgets, config, event>>
              /\ messages'[1] = messages[1]
              /\ Len(messages') >= Len(messages) ]_vars

\* C18: a turn that has started streaming reaches Committed or
\* DiscardedOnError, under a transport that ends every response.
C18_StreamingTurnFinishes ==
    (pc = "request") ~> (pc \in {"committed", "discarded"})

\* With the faulted end of a script run counted, every streaming turn ends.
StreamingTurnEnds ==
    (pc = "request") ~> (pc \in {"committed", "discarded", "crashed"})

\* C19: every request that is sent carries an endpoint that is not empty and
\* has a scheme and a host, and a model identifier that is not empty.
C19_RequestCarriesValidConfig ==
    request.sent =>
        /\ request.api_url # <<>>
        /\ UrlParse(request.api_url).scheme # <<>>
        /\ UrlParse(request.api_url).netloc # <<>>
        /\ request.model # <<>>

\* The endpoint part of C19 alone.
RequestCarriesValidEndpoint ==
    request.sent =>
        /\ request.api_url # <<>>
        /\ UrlParse(request.api_url).scheme # <<>>
        /\ UrlParse(request.api_url).netloc # <<>>

====
